---- MODULE Spec2Model ----
(***************************************************************************)
(* Model of the odds-normalisation and staking pipeline of the parlay      *)
(* fair-odds apps: American/decimal conversion, two-way devig, the leg     *)
(* loops of the Calculate handlers, the parlay products and the Kelly      *)
(* section.                                                                *)
(*                                                                         *)
(* Python floats are modelled as exact rationals [k |-> "num", n, d] in    *)
(* lowest terms; None and the exceptions the code can raise are values of  *)
(* the same record shape, so an exception raised inside an expression is   *)
(* the value of that expression and propagates through every operation     *)
(* applied to it, as a raise propagates through the enclosing calls.       *)
(* The non-finite floats nan, inf and -inf are values too, with the IEEE    *)
(* rules Python applies to them.                                           *)
(***************************************************************************)
EXTENDS Integers, Sequences, FiniteSets, TLC

VARIABLES
    h_fn,       \* helper block: the helper applied ("idle" before the call)
    h_x,        \* helper block: first argument
    h_y,        \* helper block: second argument (two-argument helpers)
    h_out,      \* helper block: the returned tuple (<<>> before the call)
    variant,    \* which app script is running
    odds_format,        \* the "Odds format" selectbox (oddsapi apps)
    picks,      \* the multiselect: the selected legs with their markets
    pc,         \* position of the script run in the Calculate handler
    n_done,     \* number of picks the leg loop has consumed
    n_mult,     \* number of results the product loop has consumed (v5b)
    results,    \* results / legs: the list of evaluated legs
    fair_prob_parlay,   \* fair_prob_parlay / parlay_prob
    fair_dec_parlay,    \* fair_dec_parlay / parlay_dec
    boosted_input,      \* the "Boosted final odds" text input
    offered_dec,        \* parse_boosted_odds(boosted_input)
    f_full,     \* f_full / k_full
    f_quarter,  \* f_quarter / k_quarter
    ev_per_dollar,
    shown,      \* the elements the run has put on the page
    exc,        \* the uncaught exception that ended the run, or None
    period_copy,        \* market choice: the script whose code runs
    candidates, \* market choice: the moneyline candidates of the matchup
    chosen,     \* market choice: the candidate picked, None before the call
    market_pc,  \* market choice: "ready" before the call, "chosen" after
    matches,    \* oddsapi v2 session: ids of the events listed in this rerun
    checked,    \* oddsapi v2 session: the two checkboxes of every event
    selected,   \* oddsapi v2 session: st.session_state.selected
    legs,       \* oddsapi v2 session: the legs built by the last Calculate
    session_pc, \* oddsapi v2 session: how far the last rerun got
    tries,      \* backoff_get: the tries argument
    attempt,    \* backoff_get: the loop index i, the requests made so far
    delay,      \* backoff_get: the local delay
    slept,      \* backoff_get: the time.sleep calls made, in order
    outcomes,   \* backoff_get: how each requests.get ended, in order
    returned    \* backoff_get: the value returned, "running" before

hvars == <<h_fn, h_x, h_y, h_out>>
cvars == <<variant, odds_format, picks, pc, n_done, n_mult, results, fair_prob_parlay,
           fair_dec_parlay, boosted_input, offered_dec, f_full, f_quarter,
           ev_per_dollar, shown, exc>>
mvars == <<period_copy, candidates, chosen, market_pc>>
svars == <<matches, checked, selected, legs, session_pc>>
bvars == <<tries, attempt, delay, slept, outcomes, returned>>
vars == <<h_fn, h_x, h_y, h_out, variant, odds_format, picks, pc, n_done,
          n_mult,          results, fair_prob_parlay, fair_dec_parlay, boosted_input,
          offered_dec, f_full, f_quarter, ev_per_dollar, shown, exc,
          period_copy, candidates, chosen, market_pc,
          matches, checked, selected, legs, session_pc,
          tries, attempt, delay, slept, outcomes, returned>>

\* ------------------------------------------------------------------------
\* Bounds of the model
\* ------------------------------------------------------------------------
MaxAmerican == 150
MaxDecNum == 24
MaxLegs == 2

\* ------------------------------------------------------------------------
\* Values: numbers, None, raised exceptions
\* ------------------------------------------------------------------------
None == [k |-> "None", n |-> 0, d |-> 1]
ZeroDivisionError == [k |-> "ZeroDivisionError", n |-> 0, d |-> 1]
TypeError == [k |-> "TypeError", n |-> 0, d |-> 1]

IsNum(x) == x.k = "num"
IsNone(x) == x.k = "None"
ValueError == [k |-> "ValueError", n |-> 0, d |-> 1]
OverflowError == [k |-> "OverflowError", n |-> 0, d |-> 1]
IsExc(x) ==
    x.k \in {"ZeroDivisionError", "TypeError", "ValueError", "OverflowError"}

\* float('nan'), and float('inf') / float('-inf') with sgn = 1 / -1
NaN == [k |-> "nan", n |-> 0, d |-> 1]
Inf(sgn) == [k |-> "inf", n |-> sgn, d |-> 1]
IsNaN(x) == x.k = "nan"
IsInf(x) == x.k = "inf"
\* a float, finite or not
IsFloat(x) == IsNum(x) \/ IsNaN(x) \/ IsInf(x)
Sign(x) == IF x.n > 0 THEN 1 ELSE IF x.n < 0 THEN -1 ELSE 0

Abs(i) == IF i < 0 THEN -i ELSE i

RECURSIVE GCD(_, _)
GCD(a, b) == IF b = 0 THEN a ELSE GCD(b, a % b)

\* the rational nn/dd (dd # 0) in lowest terms with a positive denominator
Rat(nn, dd) ==
    LET g == GCD(Abs(nn), Abs(dd))
        s == IF dd < 0 THEN -1 ELSE 1
    IN [k |-> "num", n |-> (s * nn) \div g, d |-> (s * dd) \div g]

Int2Rat(i) == Rat(i, 1)

\* comparisons of two floats: every comparison with nan is False
Lt(x, y) ==
    IF IsNaN(x) \/ IsNaN(y) THEN FALSE
    ELSE IF IsInf(x) THEN x.n < 0 /\ ~(IsInf(y) /\ y.n < 0)
    ELSE IF IsInf(y) THEN y.n > 0
    ELSE x.n * y.d < y.n * x.d
Le(x, y) == IF IsNaN(x) \/ IsNaN(y) THEN FALSE ELSE ~Lt(y, x)
Gt(x, y) == Lt(y, x)
Ge(x, y) == Le(y, x)

\* the first operand that makes a binary float operation raise, if any:
\* an exception already raised, else TypeError for a None operand
Operands(x, y) ==
    IF IsExc(x) THEN x
    ELSE IF IsExc(y) THEN y
    ELSE IF IsNone(x) \/ IsNone(y) THEN TypeError
    ELSE None

\* x + y with a non-finite operand: inf + -inf is nan
AddNonFinite(x, y) ==
    IF IsNaN(x) \/ IsNaN(y) THEN NaN
    ELSE IF IsInf(x) /\ IsInf(y) THEN (IF x.n = y.n THEN x ELSE NaN)
    ELSE IF IsInf(x) THEN x ELSE y

\* x + y over the least common denominator
Add(x, y) ==
    IF ~(IsFloat(x) /\ IsFloat(y)) THEN Operands(x, y)
    ELSE IF ~(IsNum(x) /\ IsNum(y)) THEN AddNonFinite(x, y)
    ELSE LET g == GCD(x.d, y.d)
         IN Rat(x.n * (y.d \div g) + y.n * (x.d \div g), (x.d \div g) * y.d)

Neg(x) ==
    IF IsNum(x) THEN [k |-> "num", n |-> 0 - x.n, d |-> x.d]
    ELSE IF IsInf(x) THEN Inf(0 - x.n)
    ELSE x

Sub(x, y) ==
    IF ~(IsFloat(x) /\ IsFloat(y)) THEN Operands(x, y)
    ELSE Add(x, Neg(y))

\* x * y with a non-finite operand: inf * 0 is nan
MulNonFinite(x, y) ==
    IF IsNaN(x) \/ IsNaN(y) \/ Sign(x) * Sign(y) = 0 THEN NaN
    ELSE Inf(Sign(x) * Sign(y))

\* x * y, cancelling across before multiplying
Mul(x, y) ==
    IF ~(IsFloat(x) /\ IsFloat(y)) THEN Operands(x, y)
    ELSE IF ~(IsNum(x) /\ IsNum(y)) THEN MulNonFinite(x, y)
    ELSE LET g1 == GCD(Abs(x.n), y.d)
             g2 == GCD(Abs(y.n), x.d)
         IN Rat((x.n \div g1) * (y.n \div g2), (x.d \div g2) * (y.d \div g1))

\* x / y with a non-finite operand and y # 0: inf / inf is nan, a finite
\* number over inf is zero
DivNonFinite(x, y) ==
    IF IsNaN(x) \/ IsNaN(y) \/ (IsInf(x) /\ IsInf(y)) THEN NaN
    ELSE IF IsInf(x) THEN Inf(Sign(x) * Sign(y))
    ELSE Rat(0, 1)

Div(x, y) ==
    IF ~(IsFloat(x) /\ IsFloat(y)) THEN Operands(x, y)
    ELSE IF IsNum(y) /\ y.n = 0 THEN ZeroDivisionError
    ELSE IF ~(IsNum(x) /\ IsNum(y)) THEN DivNonFinite(x, y)
    ELSE Mul(x, Rat(y.d, y.n))

\* Python truthiness of a float or None: nan and inf are true
Truthy(x) == (IsNum(x) /\ x.n # 0) \/ IsNaN(x) \/ IsInf(x)

Zero == Int2Rat(0)
One == Int2Rat(1)
Two == Int2Rat(2)
Hundred == Int2Rat(100)

\* floor of nn/dd for dd > 0
Floor(nn, dd) == IF nn >= 0 THEN nn \div dd ELSE -((-nn + dd - 1) \div dd)

\* Python round(x): nearest integer, ties to the even one; nan and inf
\* have no integer
round(x) ==
    IF IsNaN(x) THEN ValueError
    ELSE IF IsInf(x) THEN OverflowError
    ELSE IF ~IsNum(x) THEN (IF IsExc(x) THEN x ELSE TypeError)
    ELSE LET f == Floor(x.n, x.d)
             r2 == 2 * (x.n - f * x.d)
         IN Int2Rat(IF r2 < x.d THEN f
                    ELSE IF r2 > x.d THEN f + 1
                    ELSE IF f % 2 = 0 THEN f ELSE f + 1)

max(x, y) == IF ~(IsFloat(x) /\ IsFloat(y)) THEN Operands(x, y)
             ELSE IF Gt(y, x) THEN y ELSE x

\* ------------------------------------------------------------------------
\* Odds helpers
\* ------------------------------------------------------------------------
\* american_to_decimal with the negative branch computed as 1 + 100/a
american_to_decimal_plus(american) ==
    IF IsExc(american) THEN american
    ELSE IF IsNone(american) THEN None
    ELSE IF american.n > 0 THEN Add(One, Div(american, Hundred))
    ELSE IF american.n < 0 THEN Add(One, Div(Hundred, american))
    ELSE None

\* the guarded if/elif copy
american_to_decimal(american) ==
    IF IsExc(american) THEN american
    ELSE IF IsNone(american) THEN None
    ELSE IF american.n > 0 THEN Add(One, Div(american, Hundred))
    ELSE IF american.n < 0 THEN Sub(One, Div(Hundred, american))
    ELSE None

\* the one-line conditional-expression copy
american_to_decimal_oneline(a) ==
    IF IsExc(a) THEN a
    ELSE IF IsNone(a) THEN None
    ELSE IF a.n > 0 THEN Add(One, Div(a, Hundred))
    ELSE Sub(One, Div(Hundred, a))

\* decimal_to_american that truncates toward minus infinity
decimal_to_american_floor(decimal_odds) ==
    IF IsExc(decimal_odds) THEN decimal_odds
    ELSE IF ~Truthy(decimal_odds) \/ Le(decimal_odds, One) THEN None
    ELSE IF Ge(decimal_odds, Two)
         THEN Int2Rat(Floor((decimal_odds.n - decimal_odds.d) * 100,
                            decimal_odds.d))
    ELSE Int2Rat(Floor(0 - 100 * decimal_odds.d,
                       decimal_odds.n - decimal_odds.d))

\* decimal_to_american with the even-money boundary on the wrong side
decimal_to_american_gt(decimal_odds) ==
    IF IsExc(decimal_odds) THEN decimal_odds
    ELSE IF ~Truthy(decimal_odds) \/ Le(decimal_odds, One) THEN None
    ELSE IF Gt(decimal_odds, Two)
         THEN round(Mul(Sub(decimal_odds, One), Hundred))
    ELSE round(Div(Int2Rat(-100), Sub(decimal_odds, One)))

decimal_to_american(decimal_odds) ==
    IF IsExc(decimal_odds) THEN decimal_odds
    ELSE IF ~Truthy(decimal_odds) \/ Le(decimal_odds, One) THEN None
    ELSE IF Ge(decimal_odds, Two)
         THEN round(Mul(Sub(decimal_odds, One), Hundred))
    ELSE round(Div(Int2Rat(-100), Sub(decimal_odds, One)))

implied_prob_from_american(american) ==
    LET dec == american_to_decimal(american)
    IN IF IsExc(dec) THEN dec
       ELSE IF Truthy(dec) /\ dec.n > 0 THEN Div(One, dec) ELSE None

implied_prob_from_american_oneline(a) ==
    LET dd == american_to_decimal_oneline(a)
    IN IF IsExc(dd) THEN dd
       ELSE IF Truthy(dd) /\ dd.n > 0 THEN Div(One, dd) ELSE None

implied_prob_from_decimal(decimal_odds) ==
    IF IsExc(decimal_odds) THEN decimal_odds
    ELSE IF ~Truthy(decimal_odds) \/ Le(decimal_odds, One) THEN None
    ELSE Div(One, decimal_odds)

\* devig_two_way that normalises the home side only
devig_two_way_home_only(p_home, p_away) ==
    IF IsExc(p_home) THEN <<p_home, p_home>>
    ELSE IF IsExc(p_away) THEN <<p_away, p_away>>
    ELSE IF IsNone(p_home) \/ IsNone(p_away) THEN <<None, None>>
    ELSE LET s == Add(p_home, p_away)
         IN IF Le(s, Zero) THEN <<None, None>>
            ELSE <<Div(p_home, s), p_away>>

\* the additive devig: half the overround taken off each side
devig_two_way_additive(p_home, p_away) ==
    IF IsExc(p_home) THEN <<p_home, p_home>>
    ELSE IF IsExc(p_away) THEN <<p_away, p_away>>
    ELSE IF IsNone(p_home) \/ IsNone(p_away) THEN <<None, None>>
    ELSE LET s == Add(p_home, p_away)
             half == Div(Sub(s, One), Two)
         IN IF Le(s, Zero) THEN <<None, None>>
            ELSE <<Sub(p_home, half), Sub(p_away, half)>>

\* devig_two_way with the guard s < 0
devig_two_way_lt(p_home, p_away) ==
    IF IsExc(p_home) THEN <<p_home, p_home>>
    ELSE IF IsExc(p_away) THEN <<p_away, p_away>>
    ELSE IF IsNone(p_home) \/ IsNone(p_away) THEN <<None, None>>
    ELSE LET s == Add(p_home, p_away)
         IN IF Lt(s, Zero) THEN <<None, None>>
            ELSE <<Div(p_home, s), Div(p_away, s)>>

devig_two_way(p_home, p_away) ==
    IF IsExc(p_home) THEN <<p_home, p_home>>
    ELSE IF IsExc(p_away) THEN <<p_away, p_away>>
    ELSE IF IsNone(p_home) \/ IsNone(p_away) THEN <<None, None>>
    ELSE LET s == Add(p_home, p_away)
         IN IF Le(s, Zero) THEN <<None, None>>
            ELSE <<Div(p_home, s), Div(p_away, s)>>

\* kelly_fraction with the gross odds used as b
kelly_fraction_gross(p, dec_odds) ==
    IF IsExc(p) THEN p
    ELSE IF IsExc(dec_odds) THEN dec_odds
    ELSE IF IsNone(p) \/ IsNone(dec_odds) \/ Le(dec_odds, One) THEN None
    ELSE LET b == dec_odds
             q == Sub(One, p)
         IN Div(Sub(Mul(b, p), q), b)

\* kelly_fraction with q added instead of subtracted
kelly_fraction_plus(p, dec_odds) ==
    IF IsExc(p) THEN p
    ELSE IF IsExc(dec_odds) THEN dec_odds
    ELSE IF IsNone(p) \/ IsNone(dec_odds) \/ Le(dec_odds, One) THEN None
    ELSE LET b == Sub(dec_odds, One)
             q == Sub(One, p)
         IN Div(Add(Mul(b, p), q), b)

\* kelly_fraction without the dec_odds <= 1.0 guard
kelly_fraction_unguarded(p, dec_odds) ==
    IF IsExc(p) THEN p
    ELSE IF IsExc(dec_odds) THEN dec_odds
    ELSE IF IsNone(p) \/ IsNone(dec_odds) THEN None
    ELSE LET b == Sub(dec_odds, One)
             q == Sub(One, p)
         IN Div(Sub(Mul(b, p), q), b)

kelly_fraction(p, dec_odds) ==
    IF IsExc(p) THEN p
    ELSE IF IsExc(dec_odds) THEN dec_odds
    ELSE IF IsNone(p) \/ IsNone(dec_odds) \/ Le(dec_odds, One) THEN None
    ELSE LET b == Sub(dec_odds, One)
             q == Sub(One, p)
         IN Div(Sub(Mul(b, p), q), b)

\* ------------------------------------------------------------------------
\* The helper block applied to one argument tuple
\* ------------------------------------------------------------------------
DecDen == 4
ProbDen == 4

AmericanInputs == {Int2Rat(a) : a \in (0 - MaxAmerican)..MaxAmerican}
DecimalInputs == {Rat(m, DecDen) : m \in (0 - DecDen)..MaxDecNum}
ProbInputs == {Rat(m, ProbDen) : m \in 0..ProbDen}
                 \cup {Div(One, dd) : dd \in {e \in DecimalInputs : Gt(e, One)}}

\* the away price and the leg probabilities of the worked scenarios
ScenarioInputs == {Int2Rat(130), Rat(3, 5), Rat(11, 20)}

\* the parts of the program a specification does not run
MarketOff ==
    /\ period_copy = "none"
    /\ candidates = <<>>
    /\ chosen = None
    /\ market_pc = "off"

SessionOff ==
    /\ matches = {}
    /\ checked = <<>>
    /\ selected = <<>>
    /\ legs = {}
    /\ session_pc = "off"

BackoffOff ==
    /\ tries = 0
    /\ attempt = 0
    /\ delay = None
    /\ slept = <<>>
    /\ outcomes = <<>>
    /\ returned = "off"

HelperOff ==
    /\ h_fn = "off"
    /\ h_x = None
    /\ h_y = None
    /\ h_out = <<>>

CalculateOff ==
    /\ variant = "none"
    /\ odds_format = "american"
    /\ picks = <<>>
    /\ pc = "off"
    /\ n_done = 0
    /\ n_mult = 0
    /\ results = <<>>
    /\ fair_prob_parlay = None
    /\ fair_dec_parlay = None
    /\ boosted_input = <<>>
    /\ offered_dec = None
    /\ f_full = None
    /\ f_quarter = None
    /\ ev_per_dollar = None
    /\ shown = {}
    /\ exc = None

HelperInit ==
    /\ MarketOff /\ SessionOff /\ BackoffOff
    /\ h_fn = "idle"
    /\ h_x \in AmericanInputs \cup DecimalInputs \cup ProbInputs
                \cup ScenarioInputs \cup {None}
    /\ h_y \in DecimalInputs \cup ProbInputs \cup ScenarioInputs \cup {None}
    /\ h_out = <<>>
    /\ variant = "none"
    /\ odds_format = "american"
    /\ picks = <<>>
    /\ pc = "off"
    /\ n_done = 0
    /\ n_mult = 0
    /\ results = <<>>
    /\ fair_prob_parlay = None
    /\ fair_dec_parlay = None
    /\ boosted_input = <<>>
    /\ offered_dec = None
    /\ f_full = None
    /\ f_quarter = None
    /\ ev_per_dollar = None
    /\ shown = {}
    /\ exc = None

Call(fn, out) ==
    /\ h_fn = "idle"
    /\ h_fn' = fn
    /\ h_out' = out
    /\ UNCHANGED <<h_x, h_y>>
    /\ UNCHANGED <<cvars, mvars, svars, bvars>>

CallAmericanToDecimal ==
    Call("american_to_decimal", <<american_to_decimal(h_x)>>)

CallAmericanToDecimalOneline ==
    Call("american_to_decimal_oneline", <<american_to_decimal_oneline(h_x)>>)

CallDecimalToAmerican ==
    Call("decimal_to_american", <<decimal_to_american(h_x)>>)

CallImpliedProbFromAmerican ==
    Call("implied_prob_from_american", <<implied_prob_from_american(h_x)>>)

CallImpliedProbFromAmericanOneline ==
    Call("implied_prob_from_american_oneline",
         <<implied_prob_from_american_oneline(h_x)>>)

CallImpliedProbFromDecimal ==
    Call("implied_prob_from_decimal", <<implied_prob_from_decimal(h_x)>>)

CallDevigTwoWay ==
    Call("devig_two_way", devig_two_way(h_x, h_y))

\* the overround factors applied to both sides of a market
ScaleFactors == {Rat(1, 2), Rat(3, 2), Int2Rat(3)}

\* devig_two_way on both probabilities scaled by k
CallDevigTwoWayScaled ==
    \E k \in ScaleFactors :
        Call("devig_two_way_scaled",
             <<k>> \o devig_two_way(Mul(k, h_x), Mul(k, h_y)))

CallKellyFraction ==
    Call("kelly_fraction", <<kelly_fraction(h_x, h_y)>>)

\* an American price converted to decimal and back, as the Kelly section
\* does when it displays the offered price
CallRoundTrip ==
    Call("round_trip", <<decimal_to_american(american_to_decimal(h_x))>>)

\* one market through the leg pipeline: the raw implied probabilities of
\* the home and away prices, then the devigged pair
FairLegOf(p_home, p_away) ==
    <<p_home, p_away>> \o devig_two_way(p_home, p_away)

CallFairLeg ==
    Call("fair_leg", FairLegOf(implied_prob_from_american(h_x),
                               implied_prob_from_american(h_y)))

\* ------------------------------------------------------------------------
\* Offered-odds strings: sequences of one-character strings
\* ------------------------------------------------------------------------
Digits == <<"0", "1", "2", "3", "4", "5", "6", "7", "8", "9">>
IsDigitChar(c) == \E m \in 1..10 : Digits[m] = c
DigitVal(c) == (CHOOSE m \in 1..10 : Digits[m] = c) - 1

Front(str) == SubSeq(str, 1, Len(str) - 1)

\* str.strip()
RECURSIVE lstrip(_)
lstrip(str) == IF str # <<>> /\ Head(str) = " " THEN lstrip(Tail(str)) ELSE str
RECURSIVE rstrip(_)
rstrip(str) ==
    IF str # <<>> /\ str[Len(str)] = " " THEN rstrip(Front(str)) ELSE str
strip(str) == rstrip(lstrip(str))

\* re.sub(r'\s+', ' ', s): every run of whitespace becomes one space
RECURSIVE collapse(_)
collapse(str) ==
    IF Len(str) < 2 THEN str
    ELSE IF str[1] = " " /\ str[2] = " " THEN collapse(Tail(str))
    ELSE <<str[1]>> \o collapse(Tail(str))

normalize(str) == strip(collapse(str))

\* str.isdigit(): non-empty and all digits
isdigit(str) == str # <<>> /\ \A m \in 1..Len(str) : IsDigitChar(str[m])

\* the value of a digit string (0 for the empty string)
RECURSIVE DigitsValue(_)
DigitsValue(str) ==
    IF str = <<>> THEN 0
    ELSE 10 * DigitsValue(Front(str)) + DigitVal(str[Len(str)])

RECURSIVE Pow10(_)
Pow10(e) == IF e = 0 THEN 1 ELSE 10 * Pow10(e - 1)

\* float(str) for strings of signs, digits, dots, spaces and letters:
\* optional surrounding blanks, an optional sign, then nan, inf, or digits
\* with at most one dot and at least one digit; anything else raises
\* ValueError
FloatDigits(neg, ip, fp, ndots) ==
    IF \/ ndots > 1
       \/ Len(ip) + Len(fp) < 1
       \/ \E m \in 1..Len(ip) : ~IsDigitChar(ip[m])
       \/ \E m \in 1..Len(fp) : ~IsDigitChar(fp[m])
    THEN ValueError
    ELSE Rat((IF neg THEN -1 ELSE 1)
                 * (DigitsValue(ip) * Pow10(Len(fp)) + DigitsValue(fp)),
             Pow10(Len(fp)))

DotPos(body) ==
    IF \E m \in 1..Len(body) : body[m] = "."
    THEN CHOOSE m \in 1..Len(body) : body[m] = "."
    ELSE Len(body) + 1

FloatParts(neg, body, dot) ==
    FloatDigits(neg, SubSeq(body, 1, dot - 1), SubSeq(body, dot + 1, Len(body)),
                Cardinality({m \in 1..Len(body) : body[m] = "."}))

\* the non-finite tokens float() accepts after the sign
FloatBody(neg, body) ==
    IF body = <<"n", "a", "n">> THEN NaN
    ELSE IF body = <<"i", "n", "f">> THEN Inf(IF neg THEN -1 ELSE 1)
    ELSE FloatParts(neg, body, DotPos(body))

FloatSigned(t) ==
    IF t # <<>> /\ t[1] \in {"+", "-"}
    THEN FloatBody(t[1] = "-", Tail(t))
    ELSE FloatBody(FALSE, t)

float(str) == FloatSigned(strip(str))

\* the return value of the try block: an exception becomes None
ParseResult(r) == IF IsExc(r) THEN None ELSE r

\* the classification without the `val >= 100` rule
ParseValue_signed_only(american, val, oneline) ==
    ParseResult(IF IsExc(val) THEN val
                ELSE IF american
                THEN (IF oneline THEN american_to_decimal_oneline(val)
                      ELSE american_to_decimal(val))
                ELSE val)

ParseValue(american, val, oneline) ==
    ParseResult(IF IsExc(val) THEN val
                ELSE IF american \/ Ge(val, Hundred)
                THEN (IF oneline THEN american_to_decimal_oneline(val)
                      ELSE american_to_decimal(val))
                ELSE val)

\* the try/except body shared by every copy of parse_boosted_odds, with the
\* American conversion of that copy's helper block
parse_body(str, oneline) ==
    ParseValue(\/ str[1] \in {"+", "-"}
               \/ (isdigit(str) /\ DigitsValue(str) >= 100),
               float(str), oneline)

NonEmpty(t, oneline) == IF t = <<>> THEN None ELSE parse_body(t, oneline)

\* pinnacle v7c: normalize(), guarded american_to_decimal
parse_boosted_odds(str) == NonEmpty(normalize(str), FALSE)

\* oddsapi / oddsjam copies: strip(); the oddsapi copies convert with the
\* one-line american_to_decimal
parse_boosted_odds_oneline(str) == NonEmpty(strip(str), TRUE)

parse_boosted_odds_oddsjam(str) == NonEmpty(strip(str), FALSE)

\* ------------------------------------------------------------------------
\* The Calculate handlers
\* ------------------------------------------------------------------------
Variants ==
    {"pinnacle_v5b", "pinnacle_v7c", "oddsapi_v1", "oddsapi_v2", "oddsjam_v1"}

\* prices a feed can deliver for one side of a market
AmericanPrices == {None, Zero, Int2Rat(-150), Int2Rat(130)}
DecimalPrices == {Zero, One, Int2Rat(-2), Rat(8, 5), Rat(5, 2)}

\* a selected leg: the market found for it (found = FALSE: no moneyline
\* prices at all; a side the feed did not price is None) and the side
Leg(found, home, away, side) ==
    [found |-> found, home |-> home, away |-> away, side |-> side]

LegsOf(prices, withMissing) ==
    {Leg(TRUE, h, a, sd) : h \in prices, a \in prices, sd \in {"home", "away"}}
    \cup (IF withMissing
          THEN {Leg(FALSE, None, None, sd) : sd \in {"home", "away"}}
          ELSE {})

\* oddsapi v2: the two checkboxes of a listed game
CheckboxSides == {"home", "away", "both", "none"}

\* oddsapi v2: the lines of a listed game, both sides mapped
MappedAmericanLines == {Zero, Int2Rat(-150), Int2Rat(130)}
MappedDecimalLines == {Zero, Rat(8, 5), Rat(5, 2)}

\* oddsapi v2: the entries of st.session_state.selected, one per listed game
SelectedOf(lines) ==
    {Leg(TRUE, h, a, sd) : h \in lines, a \in lines, sd \in CheckboxSides}

\* oddsapi_v1 lists an event only when both sides are in `lines`
LegChoices(v, fmt) ==
    IF v = "oddsapi_v1"
    THEN LegsOf(IF fmt = "decimal" THEN DecimalPrices ELSE AmericanPrices, FALSE)
    ELSE IF v = "oddsapi_v2"
    THEN SelectedOf(IF fmt = "decimal" THEN MappedDecimalLines
                    ELSE MappedAmericanLines)
    ELSE LegsOf(AmericanPrices, TRUE)

SeqsUpTo(S, m) == UNION {[1..len -> S] : len \in 0..m}

\* what the user can type into the "Boosted final odds" box: signed and
\* unsigned American prices, decimal prices, prices that are not above 1,
\* and text that is not a price
BoostedInputs ==
    { <<"+", "4", "5", "0">>, <<"5", ".", "5", "0">>, <<"1", ".", "5">>,
      <<"-", "2", "0", "0">>, <<"1">>, <<"0">>, <<>>, <<"x">>, <<"+">>,
      <<"1", "5", "0">>, <<"1", "5", "0", ".", "0">>, <<"9", "9">>,
      <<" ", " ">>, <<"n", "a", "n">>, <<"i", "n", "f">>,
      <<"-", "i", "n", "f">>, <<"+", "n", "a", "n">>, <<"+", "0">> }

Init ==
    /\ MarketOff /\ SessionOff /\ BackoffOff
    /\ h_fn = "off"
    /\ h_x = None
    /\ h_y = None
    /\ h_out = <<>>
    /\ variant \in Variants
    /\ odds_format \in (IF variant \in {"oddsapi_v1", "oddsapi_v2"}
                         THEN {"american", "decimal"}
                         ELSE {"american"})
    /\ picks \in SeqsUpTo(LegChoices(variant, odds_format), MaxLegs)
    \* oddsapi v2 stops before the checkboxes when no game is listed
    /\ (variant = "oddsapi_v2") => picks # <<>>
    /\ pc = "idle"
    /\ n_done = 0
    /\ n_mult = 0
    /\ results = <<>>
    /\ fair_prob_parlay = None
    /\ fair_dec_parlay = None
    /\ boosted_input = <<>>
    /\ offered_dec = None
    /\ f_full = None
    /\ f_quarter = None
    /\ ev_per_dollar = None
    /\ shown = {}
    /\ exc = None

\* an evaluated leg as the handlers store it
Res(leg, fair, fair_decimal) ==
    [side |-> leg.side, price_home |-> leg.home, price_away |-> leg.away,
     fair_prob |-> fair, fair_decimal |-> fair_decimal,
     fair_american |-> decimal_to_american(fair_decimal)]

\* the odds against, 1/(1 - fair), in place of the decimal price
FairDecimal_against(fair) ==
    IF IsExc(fair) THEN fair
    ELSE IF Truthy(fair) THEN Div(One, Sub(One, fair)) ELSE None

\* (1.0/fair) if fair else None
FairDecimal(fair) ==
    IF IsExc(fair) THEN fair
    ELSE IF Truthy(fair) THEN Div(One, fair) ELSE None

Side(pair, side) == IF side = "home" THEN pair[1] ELSE pair[2]

\* compute_leg: [none |-> TRUE] stands for a None return
compute_leg(leg) ==
    IF ~leg.found THEN [none |-> TRUE, res |-> Res(leg, None, None)]
    ELSE LET p_home == implied_prob_from_american(leg.home)
             p_away == implied_prob_from_american(leg.away)
         IN IF IsNone(p_home) \/ IsNone(p_away)
            THEN [none |-> TRUE, res |-> Res(leg, None, None)]
            ELSE LET fair == Side(devig_two_way(p_home, p_away), leg.side)
                 IN [none |-> FALSE, res |-> Res(leg, fair, FairDecimal(fair))]

\* acc = x: the product overwritten by the last leg
imul_assign(acc, x) == IF IsExc(Mul(acc, x)) THEN Mul(acc, x) ELSE x

\* acc += x: the legs summed instead of multiplied
imul_add(acc, x) == Add(acc, x)

\* acc *= x
imul(acc, x) == Mul(acc, x)

\* the two in-place products at the end of a loop body: the new
\* accumulators and the exception that interrupted them, if any
Accumulate(pp, pd, res) ==
    LET np == imul(pp, res.fair_prob)
        nd == imul(pd, res.fair_decimal)
    IN IF IsExc(np) THEN [prob |-> pp, dec |-> pd, exc |-> np]
       ELSE IF IsExc(nd) THEN [prob |-> np, dec |-> pd, exc |-> nd]
       ELSE [prob |-> np, dec |-> nd, exc |-> None]

\* a leg as the product loop reads it
LegOf(fair) == [fair_prob |-> fair, fair_decimal |-> FairDecimal(fair)]

\* the parlay block after the product loop: the two products and the fair
\* American price displayed with them
ParlayOf(acc) == <<acc.prob, acc.dec, decimal_to_american(acc.dec)>>

\* the product loop over two legs, both accumulators starting at 1.0
ProductOfTwo(first, second) ==
    Accumulate(Accumulate(One, One, first).prob,
               Accumulate(One, One, first).dec, second)

\* two legs with fair probabilities h_x and h_y aggregated into a parlay
CallParlayOfTwo ==
    Call("parlay_of_two", ParlayOf(ProductOfTwo(LegOf(h_x), LegOf(h_y))))

\* format(value, "+") / format(value, ".3f"): None has no such format
FormatRaises(value) == ~IsFloat(value)

\* the exception a format raises: the one raised while computing the
\* value, else TypeError for None
FormatError(value) == IF IsExc(value) THEN value ELSE TypeError

LegLineRaises(r) ==
    \/ FormatRaises(r.price_home)
    \/ FormatRaises(r.price_away)
    \/ FormatRaises(r.fair_prob)
    \/ FormatRaises(r.fair_decimal)
    \/ FormatRaises(r.fair_american)

LegsDisplayRaises(rs) == \E m \in 1..Len(rs) : LegLineRaises(rs[m])

ParlayDisplayRaises(pd) == FormatRaises(pd) \/ FormatRaises(decimal_to_american(pd))

HelperIdle == UNCHANGED <<hvars, mvars, svars, bvars>>

Raise(e) ==
    /\ pc' = "raised"
    /\ exc' = e

Stop(element) ==
    /\ pc' = "stopped"
    /\ shown' = shown \cup {element}
    /\ exc' = exc

\* the button is pressed: the empty-selection check and the initial values
ClickCalculate ==
    /\ pc = "idle"
    /\ IF picks = <<>> /\ variant # "oddsapi_v2"
       THEN /\ Stop("warning_pick_one")
            /\ UNCHANGED <<fair_prob_parlay, fair_dec_parlay>>
       ELSE /\ pc' = "loop"
            /\ fair_prob_parlay' = IF variant = "pinnacle_v5b" THEN None ELSE One
            /\ fair_dec_parlay' = IF variant = "pinnacle_v5b" THEN None ELSE One
            /\ UNCHANGED <<shown, exc>>
    /\ UNCHANGED <<variant, odds_format, picks, n_done, n_mult, results,
                   boosted_input, offered_dec, f_full, f_quarter, ev_per_dollar>>
    /\ HelperIdle

LoopGuard(v) ==
    /\ pc = "loop"
    /\ variant = v
    /\ n_done < Len(picks)

LoopFrame ==
    /\ UNCHANGED <<variant, odds_format, picks, n_mult, boosted_input,
                   offered_dec, f_full, f_quarter, ev_per_dollar>>
    /\ HelperIdle

\* pinnacle v5b: one iteration of the results loop
LoopV5b ==
    /\ LoopGuard("pinnacle_v5b")
    /\ LET r == compute_leg(picks[n_done + 1])
       IN results' = IF r.none THEN results ELSE Append(results, r.res)
    /\ n_done' = n_done + 1
    /\ UNCHANGED <<pc, fair_prob_parlay, fair_dec_parlay, shown, exc>>
    /\ LoopFrame

\* a loop body that appends res and multiplies it in
AppendAndMultiply(res) ==
    LET acc == Accumulate(fair_prob_parlay, fair_dec_parlay, res)
    IN /\ results' = Append(results, res)
       /\ fair_prob_parlay' = acc.prob
       /\ fair_dec_parlay' = acc.dec
       /\ IF IsExc(acc.exc)
          THEN Raise(acc.exc) /\ UNCHANGED n_done
          ELSE n_done' = n_done + 1 /\ UNCHANGED <<pc, exc>>
       /\ UNCHANGED shown

\* pinnacle v7c: one iteration of the leg loop
LoopV7c ==
    /\ LoopGuard("pinnacle_v7c")
    /\ LET leg == picks[n_done + 1]
           p_home == implied_prob_from_american(leg.home)
           p_away == implied_prob_from_american(leg.away)
           fair == Side(devig_two_way(p_home, p_away), leg.side)
       IN IF ~leg.found
          THEN /\ n_done' = n_done + 1
               /\ UNCHANGED <<pc, results, fair_prob_parlay, fair_dec_parlay,
                              shown, exc>>
          ELSE AppendAndMultiply(Res(leg, fair, FairDecimal(fair)))
    /\ LoopFrame

\* oddsapi v1: one iteration of the picks loop
LoopOddsapiV1 ==
    /\ LoopGuard("oddsapi_v1")
    /\ LET leg == picks[n_done + 1]
           p_home == IF odds_format = "decimal" THEN Div(One, leg.home)
                     ELSE implied_prob_from_american_oneline(leg.home)
           p_away == IF odds_format = "decimal" THEN Div(One, leg.away)
                     ELSE implied_prob_from_american_oneline(leg.away)
           fair_prob == Side(devig_two_way(p_home, p_away), leg.side)
       IN IF IsExc(fair_prob)
          THEN /\ Raise(fair_prob)
               /\ UNCHANGED <<n_done, results, fair_prob_parlay,
                              fair_dec_parlay, shown>>
          ELSE AppendAndMultiply(Res(leg, fair_prob, FairDecimal(fair_prob)))
    /\ LoopFrame

\* the first checked box wins: a game with both sides checked counts as home
side_of_first(pick) ==
    IF pick.side \in {"home", "both"} THEN "home"
    ELSE IF pick.side = "away" THEN "away" ELSE "skip"

\* oddsapi v2: the side of an entry with exactly one box checked, "skip"
\* for an entry with both or neither checked
side_of(pick) ==
    IF pick.side = "home" THEN "home"
    ELSE IF pick.side = "away" THEN "away" ELSE "skip"

\* oddsapi v2: one iteration of the loop over st.session_state.selected;
\* a game with both or neither side checked is skipped after its
\* probabilities are computed
LoopOddsapiV2 ==
    /\ LoopGuard("oddsapi_v2")
    /\ LET leg == picks[n_done + 1]
           p_home == IF odds_format = "decimal" THEN Div(One, leg.home)
                     ELSE implied_prob_from_american_oneline(leg.home)
           p_away == IF odds_format = "decimal" THEN Div(One, leg.away)
                     ELSE implied_prob_from_american_oneline(leg.away)
           fair_prob == Side(devig_two_way(p_home, p_away), leg.side)
       IN IF IsExc(fair_prob)
          THEN /\ Raise(fair_prob)
               /\ UNCHANGED <<n_done, results, fair_prob_parlay,
                              fair_dec_parlay, shown>>
          ELSE IF side_of(leg) = "skip"
          THEN /\ n_done' = n_done + 1
               /\ UNCHANGED <<pc, results, fair_prob_parlay, fair_dec_parlay,
                              shown, exc>>
          ELSE AppendAndMultiply(Res(leg, fair_prob, FairDecimal(fair_prob)))
    /\ LoopFrame

\* oddsjam v1: one iteration of the picks loop
LoopOddsjamV1 ==
    /\ LoopGuard("oddsjam_v1")
    /\ LET leg == picks[n_done + 1]
           p_home == implied_prob_from_american(leg.home)
           p_away == implied_prob_from_american(leg.away)
           fair_prob == Side(devig_two_way(p_home, p_away), leg.side)
       IN IF ~Truthy(leg.home) \/ ~Truthy(leg.away)
          THEN /\ Stop("error_no_ml_for_fixture")
               /\ UNCHANGED <<n_done, results, fair_prob_parlay,
                              fair_dec_parlay>>
          ELSE AppendAndMultiply(Res(leg, fair_prob, FairDecimal(fair_prob)))
    /\ LoopFrame

\* the legs list and the "Parlay FAIR value" block, for the apps that
\* multiply inside the leg loop; a format of None ends the run
DisplayLegsAndParlay ==
    IF LegsDisplayRaises(results)
    THEN Raise(TypeError) /\ UNCHANGED shown
    ELSE IF ParlayDisplayRaises(fair_dec_parlay)
    THEN Raise(TypeError) /\ shown' = shown \cup {"legs"}
    ELSE /\ pc' = "kelly"
         /\ shown' = shown \cup {"legs", "parlay"}
         /\ UNCHANGED exc

AfterLoopFrame ==
    /\ UNCHANGED <<variant, odds_format, picks, n_done, results,
                   boosted_input, offered_dec, f_full, f_quarter, ev_per_dollar>>
    /\ HelperIdle

\* pinnacle v7c after the leg loop: the empty-results check and the display
AfterLoopV7c ==
    /\ pc = "loop"
    /\ variant = "pinnacle_v7c"
    /\ n_done = Len(picks)
    /\ IF results = <<>> THEN Stop("error_no_prices") ELSE DisplayLegsAndParlay
    /\ UNCHANGED <<n_mult, fair_prob_parlay, fair_dec_parlay>>
    /\ AfterLoopFrame

\* oddsapi v2 after the loop: the empty-legs check and the display
AfterLoopOddsapiV2 ==
    /\ pc = "loop"
    /\ variant = "oddsapi_v2"
    /\ n_done = Len(picks)
    /\ IF results = <<>> THEN Stop("error_no_valid_legs")
       ELSE DisplayLegsAndParlay
    /\ UNCHANGED <<n_mult, fair_prob_parlay, fair_dec_parlay>>
    /\ AfterLoopFrame

\* oddsapi v1 / oddsjam v1 after the picks loop: the display
AfterLoopOdds ==
    /\ pc = "loop"
    /\ variant \in {"oddsapi_v1", "oddsjam_v1"}
    /\ n_done = Len(picks)
    /\ DisplayLegsAndParlay
    /\ UNCHANGED <<n_mult, fair_prob_parlay, fair_dec_parlay>>
    /\ AfterLoopFrame

\* pinnacle v5b after the results loop: the empty-results check, the legs
\* list, and the accumulators set to 1.0
AfterLoopV5b ==
    /\ pc = "loop"
    /\ variant = "pinnacle_v5b"
    /\ n_done = Len(picks)
    /\ IF results = <<>>
       THEN /\ Stop("error_no_prices")
            /\ UNCHANGED <<fair_prob_parlay, fair_dec_parlay>>
       ELSE IF LegsDisplayRaises(results)
       THEN /\ Raise(TypeError)
            /\ UNCHANGED <<shown, fair_prob_parlay, fair_dec_parlay>>
       ELSE /\ pc' = "product"
            /\ shown' = shown \cup {"legs"}
            /\ fair_prob_parlay' = One
            /\ fair_dec_parlay' = One
            /\ UNCHANGED exc
    /\ UNCHANGED n_mult
    /\ AfterLoopFrame

\* pinnacle v5b: one iteration of the parlay product loop
ProductStepV5b ==
    /\ pc = "product"
    /\ n_mult < Len(results)
    /\ LET acc == Accumulate(fair_prob_parlay, fair_dec_parlay,
                             results[n_mult + 1])
       IN /\ fair_prob_parlay' = acc.prob
          /\ fair_dec_parlay' = acc.dec
          /\ IF IsExc(acc.exc)
             THEN Raise(acc.exc) /\ UNCHANGED n_mult
             ELSE n_mult' = n_mult + 1 /\ UNCHANGED <<pc, exc>>
    /\ UNCHANGED shown
    /\ AfterLoopFrame

\* pinnacle v5b: the "Parlay FAIR value" block, the end of the script
ParlayDisplayV5b ==
    /\ pc = "product"
    /\ n_mult = Len(results)
    /\ IF ParlayDisplayRaises(fair_dec_parlay)
       THEN Raise(TypeError) /\ UNCHANGED shown
       ELSE /\ pc' = "done"
            /\ shown' = shown \cup {"parlay"}
            /\ UNCHANGED exc
    /\ UNCHANGED <<n_mult, fair_prob_parlay, fair_dec_parlay>>
    /\ AfterLoopFrame

ParseFor(v, str) ==
    IF v = "pinnacle_v7c" THEN parse_boosted_odds(str)
    ELSE IF v \in {"oddsapi_v1", "oddsapi_v2"}
    THEN parse_boosted_odds_oneline(str)
    ELSE parse_boosted_odds_oddsjam(str)

Quarter == Rat(1, 4)

\* f_full * 0.25 without the floor at zero
fractional_stake_unclamped(full) == Mul(full, Quarter)

\* max(0.0, f_full * 0.25)
fractional_stake(full) == max(Zero, Mul(full, Quarter))

\* the expected value with the gross price used as b
ev_of_gross(p, offered) == Sub(Mul(p, offered), Sub(One, p))

\* fair_prob_parlay * b - (1.0 - fair_prob_parlay), b = offered_dec - 1.0
ev_of(p, offered) == Sub(Mul(p, Sub(offered, One)), Sub(One, p))

\* the Kelly section once the offered odds are parsed to od and the full
\* Kelly fraction is computed
KellyOutcome(str, od, full) ==
    /\ boosted_input' = str
    /\ offered_dec' = od
    /\ IF ~Truthy(od)
       THEN /\ Stop("error_parse")
            /\ UNCHANGED <<f_full, f_quarter, ev_per_dollar>>
       ELSE /\ f_full' = full
            /\ IF IsNone(full)
               THEN /\ Stop("error_kelly")
                    /\ UNCHANGED <<f_quarter, ev_per_dollar>>
               ELSE /\ f_quarter' = fractional_stake(full)
                    /\ ev_per_dollar' = ev_of(fair_prob_parlay, od)
                    /\ IF FormatRaises(decimal_to_american(od))
                       THEN /\ Raise(FormatError(decimal_to_american(od)))
                            /\ UNCHANGED shown
                       ELSE /\ pc' = "done"
                            /\ shown' = shown \cup {"stake"}
                            /\ UNCHANGED exc

KellyParsed(str, od) ==
    KellyOutcome(str, od, kelly_fraction(fair_prob_parlay, od))

\* the Kelly section: parse the offered odds, size the stake, display
KellySection ==
    /\ pc = "kelly"
    /\ \E str \in BoostedInputs : KellyParsed(str, ParseFor(variant, str))
    /\ UNCHANGED <<variant, odds_format, picks, n_done, n_mult, results,
                   fair_prob_parlay, fair_dec_parlay>>
    /\ HelperIdle

\* the helper block applied once to the argument tuple
\* ------------------------------------------------------------------------
\* Market choice: the full-game preference among moneyline candidates
\* ------------------------------------------------------------------------
MaxCandidates == 2

\* a or b
py_or(a, b) == IF Truthy(a) THEN a ELSE b

\* a period object: a dict with the three fields (None when absent), a list
\* of such dicts, or anything else (None, an int)
PeriodDict(number, id, periodId) ==
    [kind |-> "dict", number |-> number, id |-> id, periodId |-> periodId,
     items |-> <<>>]

PeriodList(items) ==
    [kind |-> "list", number |-> None, id |-> None, periodId |-> None,
     items |-> items]

NotAPeriod ==
    [kind |-> "other", number |-> None, id |-> None, periodId |-> None,
     items |-> <<>>]

FieldValues == {None, Zero, One}

\* number 0 with every id / periodId; another or no number with a
\* periodId that is absent or 0
PeriodDicts ==
    {PeriodDict(Zero, i, p) : i \in FieldValues, p \in FieldValues}
    \cup {PeriodDict(n, None, p) : n \in {None, One}, p \in {None, Zero}}

PeriodLists ==
    {PeriodList(<<PeriodDict(n, None, None)>>) : n \in {Zero, One}}

Periods == PeriodDicts \cup PeriodLists \cup {NotAPeriod}

\* item.get("number") or item.get("id") or item.get("periodId")
number_or_id(item) == py_or(item.number, py_or(item.id, item.periodId))

\* is_full_game_period of pinnacle v5b and v7c
is_full_game_period(period_obj) ==
    IF period_obj.kind = "dict" THEN number_or_id(period_obj) = Zero
    ELSE IF period_obj.kind = "list"
    THEN \E m \in 1..Len(period_obj.items) :
             number_or_id(period_obj.items[m]) = Zero
    ELSE FALSE

\* is_full_game_period of pinnacle v5a: the number field read first
is_full_game_period_v5a(period_obj) ==
    IF period_obj.kind = "dict"
    THEN (IF period_obj.number # None THEN period_obj.number
          ELSE py_or(period_obj.id, period_obj.periodId)) = Zero
    ELSE IF period_obj.kind = "list"
    THEN \E m \in 1..Len(period_obj.items) :
             number_or_id(period_obj.items[m]) = Zero
    ELSE FALSE

IsFullGame(copy, period_obj) ==
    IF copy = "pinnacle_v5a" THEN is_full_game_period_v5a(period_obj)
    ELSE is_full_game_period(period_obj)

\* a moneyline candidate: its period, its status and its two prices
Candidate(period, status, home, away) ==
    [period |-> period, status |-> status, home |-> home, away |-> away]

OpenStatuses == {"open", "enabled", "active", "visible", "live", "prelive"}

CandidateStatuses == {"open", "closed"}

CandidatePrices ==
    { <<Int2Rat(-150), Int2Rat(130)>>, <<Int2Rat(-150), Int2Rat(-150)>>,
      <<Int2Rat(130), Int2Rat(130)>> }

CandidateSet ==
    {Candidate(p, st, pr[1], pr[2]) :
         p \in Periods, st \in CandidateStatuses, pr \in CandidatePrices}

\* candidate_overround / candidate_overround_from_prices
candidate_overround(c) ==
    IF IsNone(c.home) \/ IsNone(c.away) THEN None
    ELSE IF IsNone(implied_prob_from_american(c.home))
            \/ IsNone(implied_prob_from_american(c.away))
    THEN None
    ELSE Sub(Add(implied_prob_from_american(c.home),
                 implied_prob_from_american(c.away)), One)

IsViable(c) ==
    /\ ~IsNone(candidate_overround(c))
    /\ Gt(candidate_overround(c), Zero)

\* sorted(viable, key=overround)[0]: the first candidate of least overround
FirstOfLeastOverround(viable) ==
    viable[CHOOSE i \in 1..Len(viable) :
               \A j \in 1..Len(viable) :
                   \/ Lt(candidate_overround(viable[i]),
                         candidate_overround(viable[j]))
                   \/ /\ candidate_overround(viable[i])
                           = candidate_overround(viable[j])
                      /\ i <= j]

ChooseFrom(pool, viable, open_pool) ==
    IF viable # <<>> THEN FirstOfLeastOverround(viable)
    ELSE IF open_pool # <<>> THEN open_pool[1]
    ELSE pool[1]

ChooseInPool(pool) ==
    ChooseFrom(pool,
               SelectSeq(pool, IsViable),
               SelectSeq(pool, LAMBDA c : c.status \in OpenStatuses))

FullGameOf(copy, cands) ==
    SelectSeq(cands, LAMBDA c : IsFullGame(copy, c.period))

\* choose_candidate, and the candidate choice inside get_ml_prices
choose_candidate(copy, cands) ==
    IF cands = <<>> THEN None
    ELSE IF FullGameOf(copy, cands) # <<>>
    THEN ChooseInPool(FullGameOf(copy, cands))
    ELSE ChooseInPool(cands)

MarketInit ==
    /\ HelperOff /\ CalculateOff /\ SessionOff /\ BackoffOff
    /\ period_copy \in {"pinnacle_v5a", "pinnacle_v5b", "pinnacle_v7c"}
    /\ candidates \in SeqsUpTo(CandidateSet, MaxCandidates)
    /\ chosen = None
    /\ market_pc = "ready"

MarketFrame ==
    /\ market_pc' = "chosen"
    /\ UNCHANGED <<period_copy, candidates>>
    /\ UNCHANGED <<hvars, cvars, svars, bvars>>

\* pinnacle v5a / v5b: get_ml_prices picks a candidate
GetMlPrices ==
    /\ market_pc = "ready"
    /\ period_copy \in {"pinnacle_v5a", "pinnacle_v5b"}
    /\ chosen' = choose_candidate(period_copy, candidates)
    /\ MarketFrame

\* pinnacle v7c: choose_candidate
ChooseCandidate ==
    /\ market_pc = "ready"
    /\ period_copy = "pinnacle_v7c"
    /\ chosen' = choose_candidate(period_copy, candidates)
    /\ MarketFrame

MarketNext ==
    \/ GetMlPrices
    \/ ChooseCandidate

MarketSpec == MarketInit /\ [][MarketNext]_vars

\* ------------------------------------------------------------------------
\* oddsapi v2: st.session_state.selected across script reruns
\* ------------------------------------------------------------------------
MaxEvents == 2

\* the events the feed can return
Events == 1..MaxEvents

\* st.session_state.selected: an entry per event id, "absent" for no entry
NoEntries == [e \in Events |-> "absent"]

Unchecked == [e \in Events |-> "none"]

\* a click on the home or the away checkbox of a game
toggle(boxes, box) ==
    IF box = "home"
    THEN (IF boxes = "none" THEN "home" ELSE IF boxes = "home" THEN "none"
          ELSE IF boxes = "away" THEN "both" ELSE "away")
    ELSE (IF boxes = "none" THEN "away" ELSE IF boxes = "away" THEN "none"
          ELSE IF boxes = "home" THEN "both" ELSE "home")

\* the loop over matches: st.session_state.selected[eid] written for every
\* listed event, every other entry left as it is
update_selected(listed, boxes) ==
    [e \in Events |-> IF e \in listed THEN boxes[e] ELSE selected[e]]

\* the Calculate loop over st.session_state.selected.items(): a leg for
\* every entry with exactly one side checked
build_legs(entries) ==
    {[event |-> e, side |-> entries[e]] :
         e \in {x \in Events : entries[x] \in {"home", "away"}}}

\* one run of the script from the matches list on: st.stop() when no game
\* is listed, else the checkbox loop and, with the button pressed, the
\* Calculate block
RunScript(listed, boxes, button) ==
    /\ matches' = listed
    /\ IF listed = {}
       THEN /\ checked' = Unchecked
            /\ selected' = selected
            /\ legs' = {}
            /\ session_pc' = "stopped"
       ELSE /\ checked' = boxes
            /\ selected' = update_selected(listed, boxes)
            /\ legs' = IF button
                       THEN build_legs(update_selected(listed, boxes))
                       ELSE {}
            /\ session_pc' = IF button THEN "calculated" ELSE "listed"
    /\ UNCHANGED <<hvars, cvars, mvars, bvars>>

\* the session starts empty, before any game was listed
SessionInit ==
    /\ HelperOff /\ CalculateOff /\ MarketOff /\ BackoffOff
    /\ matches = {}
    /\ checked = Unchecked
    /\ selected = NoEntries
    /\ legs = {}
    /\ session_pc = "stopped"

\* the user clicks one checkbox of a listed game
ToggleCheckbox ==
    \E e \in matches, box \in {"home", "away"} :
        RunScript(matches, [checked EXCEPT ![e] = toggle(checked[e], box)],
                  FALSE)

\* the team filter, the settings or a refetch change the listed games; the
\* checkbox of a game that was not on the page starts unchecked
ChangeListing ==
    \E listed \in SUBSET Events :
        /\ listed # matches
        /\ RunScript(listed,
                     [e \in Events |->
                          IF e \in listed \cap matches THEN checked[e]
                          ELSE "none"],
                     FALSE)

\* the user presses Calculate with the page as it is
PressCalculate ==
    /\ matches # {}
    /\ RunScript(matches, checked, TRUE)

SessionNext ==
    \/ ToggleCheckbox
    \/ ChangeListing
    \/ PressCalculate

SessionSpec == SessionInit /\ [][SessionNext]_vars

\* ------------------------------------------------------------------------
\* backoff_get: the retry loop around requests.get
\* ------------------------------------------------------------------------
MaxTries == 4

\* how requests.get followed by raise_for_status can end
RequestFailures == {"HTTPError", "Timeout", "ConnectionError"}

\* except HTTPError: only the error of raise_for_status caught
except_HTTPError(raised) == raised = "HTTPError"

\* except Exception: every error of the requests library is caught
except_Exception(raised) == raised \in RequestFailures

\* delay *= 1.8
next_delay(d) == Mul(d, Rat(9, 5))

BackoffInit ==
    /\ HelperOff /\ CalculateOff /\ MarketOff /\ SessionOff
    /\ tries \in 0..MaxTries
    /\ attempt = 0
    /\ delay = Rat(4, 5)
    /\ slept = <<>>
    /\ outcomes = <<>>
    /\ returned = "running"

BackoffFrame == UNCHANGED <<hvars, cvars, mvars, svars, tries>>

\* an iteration whose request succeeds: return r
RequestSucceeds ==
    /\ returned = "running"
    /\ attempt < tries
    /\ outcomes' = Append(outcomes, "ok")
    /\ returned' = "response"
    /\ UNCHANGED <<attempt, delay, slept>>
    /\ BackoffFrame

\* an iteration whose request raises: the handler sleeps and stretches the
\* delay; an error the except clause does not name leaves the function
RequestFails ==
    /\ returned = "running"
    /\ attempt < tries
    /\ \E raised \in RequestFailures :
          /\ outcomes' = Append(outcomes, raised)
          /\ IF except_Exception(raised)
             THEN /\ slept' = Append(slept, delay)
                  /\ delay' = next_delay(delay)
                  /\ attempt' = attempt + 1
                  /\ UNCHANGED returned
             ELSE /\ returned' = "raised"
                  /\ UNCHANGED <<attempt, delay, slept>>
    /\ BackoffFrame

\* the loop is exhausted: return None
ReturnNone ==
    /\ returned = "running"
    /\ attempt = tries
    /\ returned' = "None"
    /\ UNCHANGED <<attempt, delay, slept, outcomes>>
    /\ BackoffFrame

BackoffNext ==
    \/ RequestSucceeds
    \/ RequestFails
    \/ ReturnNone

\* every request ends (timeout=20) and every sleep is finite, so an
\* iteration that can run does run
BackoffSpec ==
    BackoffInit /\ [][BackoffNext]_vars /\ WF_vars(BackoffNext)

HelperNext ==
    \/ CallAmericanToDecimal
    \/ CallAmericanToDecimalOneline
    \/ CallDecimalToAmerican
    \/ CallImpliedProbFromAmerican
    \/ CallImpliedProbFromAmericanOneline
    \/ CallImpliedProbFromDecimal
    \/ CallDevigTwoWay
    \/ CallDevigTwoWayScaled
    \/ CallKellyFraction
    \/ CallRoundTrip
    \/ CallFairLeg
    \/ CallParlayOfTwo

HelperSpec == HelperInit /\ [][HelperNext]_vars

Next ==
    \/ ClickCalculate
    \/ LoopV5b
    \/ LoopV7c
    \/ LoopOddsapiV1
    \/ LoopOddsapiV2
    \/ LoopOddsjamV1
    \/ AfterLoopV7c
    \/ AfterLoopOdds
    \/ AfterLoopOddsapiV2
    \/ AfterLoopV5b
    \/ ProductStepV5b
    \/ ParlayDisplayV5b
    \/ KellySection

Spec == Init /\ [][Next]_vars

\* ------------------------------------------------------------------------
\* Properties
\* ------------------------------------------------------------------------
IsAmericanInt(x) == IsNum(x) /\ x.d = 1 /\ Abs(x.n) >= 100

\* C1 (as stated): converting any integer American price of magnitude at
\* least 100, -100 and +100 included, to decimal and back returns it
C1_RoundTripExact ==
    (h_fn = "round_trip" /\ IsAmericanInt(h_x)) => h_out = <<h_x>>

\* C1 (amended): the round trip returns every integer American price of
\* magnitude at least 100 except -100, which comes back as +100
C1_RoundTripExceptMinus100 ==
    (h_fn = "round_trip" /\ IsAmericanInt(h_x))
        => h_out = <<IF h_x.n = -100 THEN Int2Rat(100) ELSE h_x>>

C1_Witness ==
    /\ h_fn = "round_trip"
    /\ IsAmericanInt(h_x)
    /\ h_x.n < -100
    /\ h_out = <<h_x>>

\* C2: for implied probabilities p_a > 0 and p_b > 0 the pair returned by
\* devig_two_way sums to 1
C2_DevigSumsToOne ==
    (h_fn = "devig_two_way" /\ IsNum(h_x) /\ IsNum(h_y)
        /\ h_x.n > 0 /\ h_y.n > 0)
        => /\ IsNum(h_out[1]) /\ IsNum(h_out[2])
           /\ h_out[1].n * h_out[2].d + h_out[2].n * h_out[1].d
                  = h_out[1].d * h_out[2].d

C2_Witness ==
    /\ h_fn = "devig_two_way"
    /\ IsNum(h_x) /\ IsNum(h_y)
    /\ h_x.n > 0 /\ h_y.n > 0
    /\ Gt(Add(h_x, h_y), One)
    /\ IsNum(h_out[1]) /\ Lt(h_out[1], h_x)

\* C3 (as stated): in every copy of the helper block american_to_decimal
\* and implied_prob_from_american return None for 0 and for None, without
\* raising
C3_ZeroAndNoneGiveNoValue ==
    (/\ h_fn \in {"american_to_decimal", "american_to_decimal_oneline",
                   "implied_prob_from_american",
                   "implied_prob_from_american_oneline"}
     /\ (IsNone(h_x) \/ h_x = Zero))
        => h_out = <<None>>

\* a decimal price the data model excludes: 1.0 or less
AtMostOne(x) == IsNum(x) /\ Le(x, One)

\* C4 (as stated): a decimal odds value of 1.0 or less never becomes a
\* computed number and never causes a division by zero; here for the
\* decimal-format leg path of the Calculate handler
C4_DecimalAtMostOneGivesNoValue ==
    (variant = "oddsapi_v1" /\ odds_format = "decimal")
        => /\ exc # ZeroDivisionError
           /\ \A m \in 1..Len(results) :
                (AtMostOne(results[m].price_home)
                    \/ AtMostOne(results[m].price_away))
                    => ~IsNum(results[m].fair_prob)

\* a selected leg the data model calls unusable: no prices found, a side
\* not priced, or a price that is not a valid price of the format
Unusable(leg, fmt) ==
    \/ ~leg.found
    \/ ~Truthy(leg.home)
    \/ ~Truthy(leg.away)
    \/ (fmt = "decimal" /\ (AtMostOne(leg.home) \/ AtMostOne(leg.away)))

\* C5 (as stated): a parlay fair value is displayed only when every
\* selected leg is usable; here for the American-format handlers
C5_NoPartialParlay ==
    ("parlay" \in shown /\ odds_format = "american")
        => \A m \in 1..Len(picks) : ~Unusable(picks[m], odds_format)

\* the run ended by an exception inside the leg loop or the product loop
RaisedInLegWork ==
    /\ pc = "raised"
    /\ \/ n_done < Len(picks)
       \/ (variant = "pinnacle_v5b" /\ "legs" \in shown
               /\ n_mult < Len(results))

\* C6 (as stated): a market with a side absent, zero or unconvertible ends
\* leg evaluation without an exception in the leg loop or in the parlay
\* products, and without a substituted probability
C6_UnusableLegNeverRaises ==
    /\ ~RaisedInLegWork
    /\ \A m \in 1..Len(results) :
         (~Truthy(results[m].price_home) \/ ~Truthy(results[m].price_away))
             => ~IsNum(results[m].fair_prob)

\* the product of the fair probabilities of the first m legs, and of their
\* reciprocals
RECURSIVE ProbProduct(_, _)
ProbProduct(rs, m) ==
    IF m = 0 THEN One ELSE Mul(ProbProduct(rs, m - 1), rs[m].fair_prob)
RECURSIVE RecipProduct(_, _)
RecipProduct(rs, m) ==
    IF m = 0 THEN One
    ELSE Mul(RecipProduct(rs, m - 1), Rat(rs[m].fair_prob.d, rs[m].fair_prob.n))

\* the number of legs the aggregation loop has multiplied in
Multiplied ==
    IF variant = "pinnacle_v5b" THEN n_mult ELSE Len(results)

AllUsable(rs, m) ==
    \A q \in 1..m : IsNum(rs[q].fair_prob) /\ rs[q].fair_prob.n # 0

\* C7: after the aggregation loop has processed usable legs p_1..p_n,
\* fair_prob_parlay is the product of the p_i and fair_dec_parlay the
\* product of the 1/p_i
C7_ParlayIsProduct ==
    (pc # "raised" /\ IsNum(fair_prob_parlay) /\ AllUsable(results, Multiplied))
        => /\ fair_prob_parlay = ProbProduct(results, Multiplied)
           /\ fair_dec_parlay = RecipProduct(results, Multiplied)

C7_Witness ==
    /\ pc \in {"kelly", "done"}
    /\ Multiplied >= 2
    /\ "parlay" \in shown
    /\ IsNum(fair_prob_parlay)
    /\ Lt(fair_prob_parlay, results[1].fair_prob)
    /\ Lt(fair_prob_parlay, results[2].fair_prob)

\* C8: for a present p and dec_odds > 1.0, kelly_fraction returns
\* (b*p - q)/b with b = dec_odds - 1 and q = 1 - p
C8_KellyFormula ==
    (h_fn = "kelly_fraction" /\ IsNum(h_x) /\ IsNum(h_y) /\ Gt(h_y, One))
        => /\ IsNum(h_out[1])
           /\ h_out[1].n * (h_y.n - h_y.d) * h_x.d
                = h_out[1].d * ((h_y.n - h_y.d) * h_x.n
                                   - (h_x.d - h_x.n) * h_y.d)

C8_Witness ==
    /\ h_fn = "kelly_fraction"
    /\ IsNum(h_x) /\ Gt(h_x, Zero) /\ Lt(h_x, One)
    /\ IsNum(h_y) /\ Gt(h_y, Two)
    /\ IsNum(h_out[1]) /\ Gt(h_out[1], Zero)

IsKellyCase ==
    /\ h_fn = "kelly_fraction"
    /\ IsNum(h_x) /\ Gt(h_x, Zero) /\ Lt(h_x, One)
    /\ IsNum(h_y) /\ Gt(h_y, One)

\* C9: for p in (0,1) and d > 1, kelly_fraction(p, d) is 0 when 1/d = p,
\* negative when 1/d > p and positive when 1/d < p
C9_KellySign ==
    IsKellyCase
        => /\ IsNum(h_out[1])
           /\ (h_x.n * h_y.n = h_x.d * h_y.d) => h_out[1].n = 0
           /\ (h_x.n * h_y.n < h_x.d * h_y.d) => h_out[1].n < 0
           /\ (h_x.n * h_y.n > h_x.d * h_y.d) => h_out[1].n > 0

C9_Witness ==
    /\ IsKellyCase
    /\ h_x.n * h_y.n = h_x.d * h_y.d
    /\ h_x.d > 2
    /\ h_out = <<Zero>>

\* C10: the displayed fractional stake is max(0, f_full * 0.25): never
\* negative, 0 exactly when f_full <= 0, otherwise a quarter of f_full
C10_QuarterKellyClamped ==
    ("stake" \in shown)
        => /\ IsNum(f_full) /\ IsNum(f_quarter)
           /\ f_quarter.n >= 0
           /\ (f_quarter.n = 0) <=> (f_full.n <= 0)
           /\ (f_full.n > 0) => (Mul(f_quarter, Int2Rat(4)) = f_full)

C10_Witness ==
    /\ "stake" \in shown
    /\ IsNum(f_full) /\ f_full.n < 0
    /\ f_quarter = Zero

\* the Kelly section of the run has been executed
KellyRan ==
    /\ variant # "pinnacle_v5b"
    /\ "parlay" \in shown
    /\ pc # "kelly"

\* C11: the stake block (full Kelly, quarter-Kelly stake, EV) is displayed
\* only after parse_boosted_odds returned a value and kelly_fraction a
\* non-None value; p is never absent when the Kelly section runs, and
\* offered decimal odds <= 1.0 make kelly_fraction return None and stop the
\* run with the Kelly error before any stake is shown
C11_StakeOnlyAfterKelly ==
    /\ ("stake" \in shown)
          => /\ Truthy(offered_dec)
             /\ IsFloat(f_full)
             /\ Gt(offered_dec, One)
    /\ (pc = "kelly") => IsNum(fair_prob_parlay)
    /\ (KellyRan /\ Truthy(offered_dec) /\ Le(offered_dec, One))
          => /\ IsNone(f_full)
             /\ pc = "stopped"
             /\ "error_kelly" \in shown
             /\ "stake" \notin shown

C11_Witness ==
    /\ KellyRan
    /\ offered_dec = One
    /\ "error_kelly" \in shown
    /\ "stake" \notin shown

\* an offered-odds string that is a well-formed number: an optional sign and
\* digits with at most one dot
WellFormedPrice(str) == IsNum(float(str))

\* C12 (as stated): for every offered-odds string that is not a
\* well-formed price (empty, blank, text, a lone sign, a non-finite token)
\* parse_boosted_odds returns None without raising, and the caller then
\* neither calls kelly_fraction nor shows a stake nor ends in an exception
C12_MalformedGivesNoValue ==
    (KellyRan /\ ~WellFormedPrice(boosted_input))
        => /\ IsNone(offered_dec)
           /\ IsNone(f_full)
           /\ "stake" \notin shown
           /\ pc = "stopped"

\* the string is read as American odds: a leading sign, all digits with
\* value >= 100, or an unsigned number >= 100
ReadAsAmerican(t) ==
    \/ t[1] \in {"+", "-"}
    \/ (isdigit(t) /\ DigitsValue(t) >= 100)
    \/ Ge(float(t), Hundred)

\* C13: a well-formed offered-odds string that is read as American is
\* converted with american_to_decimal; any other is returned unchanged
C13_Classification ==
    (KellyRan /\ WellFormedPrice(boosted_input))
        => offered_dec =
             IF ReadAsAmerican(strip(boosted_input))
             THEN american_to_decimal(float(boosted_input))
             ELSE float(boosted_input)

C13_Witness ==
    /\ KellyRan
    /\ boosted_input = <<"1", "5", "0", ".", "0">>
    /\ offered_dec = Rat(5, 2)

\* C14: for a > 0 american_to_decimal(a) = 1 + a/100, for a < 0 it is
\* 1 - 100/a; either way the decimal price is above 1 and the implied
\* probability 1/decimal lies strictly between 0 and 1
C14_AmericanToDecimal ==
    /\ (/\ h_fn \in {"american_to_decimal", "american_to_decimal_oneline"}
        /\ IsNum(h_x) /\ h_x.n # 0)
          => /\ IsNum(h_out[1])
             /\ Gt(h_out[1], One)
             /\ (h_x.n > 0)
                  => h_out[1].n * 100 * h_x.d
                        = h_out[1].d * (100 * h_x.d + h_x.n)
             /\ (h_x.n < 0)
                  => h_out[1].n * h_x.n
                        = h_out[1].d * (h_x.n - 100 * h_x.d)
    /\ (/\ h_fn \in {"implied_prob_from_american",
                      "implied_prob_from_american_oneline"}
        /\ IsNum(h_x) /\ h_x.n # 0)
          => /\ IsNum(h_out[1])
             /\ Gt(h_out[1], Zero)
             /\ Lt(h_out[1], One)
             /\ (h_x.n < 0)
                  => h_out[1].n * (h_x.n - 100 * h_x.d)
                        = h_out[1].d * h_x.n

C14_Witness ==
    /\ h_fn = "american_to_decimal"
    /\ h_x = Int2Rat(-150)
    /\ h_out = <<Rat(5, 3)>>

\* r is the integer nearest to nn/dd (dd > 0), the even one on a tie
IsRoundOf(r, nn, dd) ==
    /\ IsNum(r)
    /\ r.d = 1
    /\ 2 * Abs(nn - r.n * dd) <= dd
    /\ (2 * Abs(nn - r.n * dd) = dd) => r.n % 2 = 0

\* C15: decimal_to_american(d) is None when d is absent or d <= 1.0,
\* round((d-1)*100) for d >= 2.0 and round(-100/(d-1)) for 1.0 < d < 2.0
C15_DecimalToAmerican ==
    (h_fn = "decimal_to_american")
        => IF IsNone(h_x) \/ Le(h_x, One) THEN h_out = <<None>>
           ELSE IF Ge(h_x, Two)
                THEN IsRoundOf(h_out[1], (h_x.n - h_x.d) * 100, h_x.d)
           ELSE IsRoundOf(h_out[1], 0 - 100 * h_x.d, h_x.n - h_x.d)

\* a price between 1 and 2 whose American value is not an integer before
\* rounding
C15_Witness ==
    /\ h_fn = "decimal_to_american"
    /\ IsNum(h_x) /\ Gt(h_x, One) /\ Lt(h_x, Two)
    /\ (100 * h_x.d) % (h_x.n - h_x.d) # 0
    /\ IsNum(h_out[1]) /\ h_out[1].n < -100

\* C16: for p_a, p_b > 0 and k > 0, devig_two_way(k*p_a, k*p_b) returns
\* the pair devig_two_way(p_a, p_b) returns
C16_DevigScaleInvariant ==
    (h_fn = "devig_two_way_scaled" /\ IsNum(h_x) /\ IsNum(h_y)
        /\ h_x.n > 0 /\ h_y.n > 0)
        => SubSeq(h_out, 2, 3) = devig_two_way(h_x, h_y)

C16_Witness ==
    /\ h_fn = "devig_two_way_scaled"
    /\ IsNum(h_x) /\ IsNum(h_y)
    /\ h_x.n > 0 /\ h_y.n > 0
    /\ h_x # h_y
    /\ h_out[1] = Int2Rat(3)
    /\ IsNum(h_out[2]) /\ Gt(h_out[2], h_out[3])

\* C17: devig_two_way returns (None, None), without raising, exactly when
\* an input is absent or p_a + p_b <= 0; otherwise it returns
\* (p_a/(p_a+p_b), p_b/(p_a+p_b))
C17_DevigGuards ==
    (h_fn = "devig_two_way")
        => IF IsNone(h_x) \/ IsNone(h_y)
                \/ h_x.n * h_y.d + h_y.n * h_x.d <= 0
           THEN h_out = <<None, None>>
           ELSE /\ IsNum(h_out[1]) /\ IsNum(h_out[2])
                /\ h_out[1].n * (h_x.n * h_y.d + h_y.n * h_x.d)
                      = h_out[1].d * h_x.n * h_y.d
                /\ h_out[2].n * (h_x.n * h_y.d + h_y.n * h_x.d)
                      = h_out[2].d * h_y.n * h_x.d

C17_Witness ==
    /\ h_fn = "devig_two_way"
    /\ IsNum(h_x) /\ IsNum(h_y)
    /\ h_x.n # 0
    /\ Add(h_x, h_y) = Zero
    /\ h_out = <<None, None>>

\* C18: every evaluated leg has fair_decimal = 1/fair_prob, and after every
\* iteration of the aggregation loop fair_prob_parlay * fair_dec_parlay = 1
C18_ProductsConsistent ==
    /\ \A m \in 1..Len(results) :
          IsNum(results[m].fair_prob)
              => /\ results[m].fair_prob.n # 0
                 /\ Mul(results[m].fair_prob, results[m].fair_decimal) = One
    /\ (pc # "raised" /\ IsNum(fair_prob_parlay))
          => Mul(fair_prob_parlay, fair_dec_parlay) = One

C18_Witness ==
    /\ pc = "loop"
    /\ variant = "oddsjam_v1"
    /\ n_done = 2
    /\ Len(results) = 2
    /\ results[1].fair_prob # results[2].fair_prob
    /\ Lt(fair_prob_parlay, One)
    /\ Gt(fair_dec_parlay, Two)

\* C20: the displayed expected value per unit staked is p*b - (1 - p) with
\* p the parlay fair probability and b the offered decimal odds minus 1,
\* that is p * offered_dec - 1: a function of p and the offered price only
C20_ExpectedValue ==
    ("stake" \in shown)
        => ev_per_dollar = Sub(Mul(fair_prob_parlay, offered_dec), One)

\* an EV shown below zero next to a stake clamped to zero
C20_Witness ==
    /\ "stake" \in shown
    /\ IsNum(ev_per_dollar) /\ ev_per_dollar.n < 0
    /\ f_quarter = Zero
    /\ ev_per_dollar # f_full

\* the leg loop has run to its end and kept no leg, or nothing was selected
EndedWithZeroLegs ==
    /\ pc \notin {"idle", "loop"}
    /\ n_done = Len(picks)
    /\ results = <<>>

ZeroLegReports ==
    {"warning_pick_one", "error_no_prices", "error_no_valid_legs"}

Shows(x, digits, scale) ==
    IsNum(x) /\ IsRoundOf(Int2Rat(digits), x.n * scale, x.d)

IsScenario1 ==
    /\ h_fn = "fair_leg"
    /\ h_x = Int2Rat(-150)
    /\ h_y = Int2Rat(130)

\* C21 (as stated): home -150 / away +130 gives raw probabilities 0.6667
\* and 0.4348, sum 1.1014, fair probabilities 0.6054 and 0.3946
C21_Scenario1 ==
    IsScenario1
        => /\ Shows(h_out[1], 6667, 10000)
           /\ Shows(h_out[2], 4348, 10000)
           /\ Shows(Add(h_out[1], h_out[2]), 11014, 10000)
           /\ Shows(h_out[3], 6054, 10000)
           /\ Shows(h_out[4], 3946, 10000)

\* C21 (amended): home -150 / away +130 gives raw probabilities 0.6000 and
\* 0.4348, sum 1.0348, fair probabilities 0.5798 and 0.4202
C21_Scenario1Amended ==
    IsScenario1
        => /\ Shows(h_out[1], 6000, 10000)
           /\ Shows(h_out[2], 4348, 10000)
           /\ Shows(Add(h_out[1], h_out[2]), 10348, 10000)
           /\ Shows(h_out[3], 5798, 10000)
           /\ Shows(h_out[4], 4202, 10000)

C21_Witness ==
    /\ IsScenario1
    /\ h_out[1] = Rat(3, 5)
    /\ h_out[2] = Rat(10, 23)
    /\ Add(h_out[3], h_out[4]) = One

IsScenario3 ==
    /\ h_fn = "parlay_of_two"
    /\ h_x = Rat(3, 5)
    /\ h_y = Rat(11, 20)

\* C22: legs with fair probabilities 0.60 and 0.55 aggregate to the parlay
\* fair probability 0.33 and the fair decimal price 3.030 (to 3 decimals),
\* and decimal_to_american of that price is +203
C22_Scenario3 ==
    IsScenario3
        => /\ h_out[1] = Rat(33, 100)
           /\ Shows(h_out[2], 3030, 1000)
           /\ h_out[3] = Int2Rat(203)

C22_Witness ==
    /\ IsScenario3
    /\ h_out[2] = Rat(100, 33)
    /\ Mul(h_out[1], h_out[2]) = One

\* C23 (as stated): an American price of magnitude below 100 is invalid and
\* american_to_decimal yields no value for it
C23_SubHundredIsInvalid ==
    (/\ h_fn \in {"american_to_decimal", "american_to_decimal_oneline"}
     /\ IsNum(h_x) /\ h_x.d = 1
     /\ h_x.n # 0 /\ Abs(h_x.n) < 100)
        => h_out = <<None>>

\* C28: every non-None result of decimal_to_american is an integer of
\* magnitude at least 100, positive exactly when d >= 2.0 and negative
\* exactly when 1.0 < d < 2.0
C28_ValidAmerican ==
    (h_fn = "decimal_to_american" /\ ~IsNone(h_out[1]))
        => /\ IsNum(h_out[1])
           /\ h_out[1].d = 1
           /\ Abs(h_out[1].n) >= 100
           /\ (h_out[1].n > 0) <=> Ge(h_x, Two)
           /\ (h_out[1].n < 0) <=> (Gt(h_x, One) /\ Lt(h_x, Two))

\* even money: the smallest positive American price
C28_Witness ==
    /\ h_fn = "decimal_to_american"
    /\ h_x = Two
    /\ h_out = <<Hundred>>

\* C29: for 0 <= p <= 1 and dec_odds > 1.0, kelly_fraction(p, dec_odds) is
\* at most p, hence at most 1, and the quarter-Kelly stake derived from it
\* lies in [0, 0.25]
C29_KellyUpperBound ==
    (/\ h_fn = "kelly_fraction"
     /\ IsNum(h_x) /\ Ge(h_x, Zero) /\ Le(h_x, One)
     /\ IsNum(h_y) /\ Gt(h_y, One))
        => /\ IsNum(h_out[1])
           /\ Le(h_out[1], h_x)
           /\ Le(h_out[1], One)
           /\ Ge(fractional_stake(h_out[1]), Zero)
           /\ Le(fractional_stake(h_out[1]), Quarter)

\* a certain win: both bounds attained
C29_Witness ==
    /\ h_fn = "kelly_fraction"
    /\ h_x = One
    /\ IsNum(h_y) /\ Gt(h_y, One)
    /\ h_out = <<One>>
    /\ fractional_stake(h_out[1]) = Quarter

\* every selected leg comes from a market with two non-zero American prices
AllLegsPriced ==
    /\ odds_format = "american"
    /\ \A m \in 1..Len(picks) :
          /\ picks[m].found
          /\ IsNum(picks[m].home) /\ picks[m].home.n # 0
          /\ IsNum(picks[m].away) /\ picks[m].away.n # 0

AccumulatorsInBounds ==
    (AllLegsPriced /\ IsNum(fair_prob_parlay))
        => /\ Gt(fair_prob_parlay, Zero)
           /\ Le(fair_prob_parlay, One)
           /\ Ge(fair_dec_parlay, One)
           /\ \A m \in 1..Multiplied :
                 Le(fair_prob_parlay, results[m].fair_prob)

\* x / y for positive x and y, the numerators and the denominators
\* reduced against each other before they are multiplied
Quotient(x, y) == Mul(Rat(x.n, y.n), Rat(y.d, x.d))

AccumulatorsMonotone ==
    (/\ AllLegsPriced
     /\ IsNum(fair_prob_parlay) /\ IsNum(fair_prob_parlay')
     /\ Gt(fair_prob_parlay, Zero) /\ Gt(fair_dec_parlay, Zero))
        => /\ IsNum(fair_dec_parlay')
           /\ Gt(fair_prob_parlay', Zero)
           /\ Gt(fair_dec_parlay', Zero)
           /\ Le(Quotient(fair_prob_parlay', fair_prob_parlay), One)
           /\ Ge(Quotient(fair_dec_parlay', fair_dec_parlay), One)

\* C27: when every leg comes from a market with two non-zero American
\* prices, after each iteration of the aggregation loop
\* 0 < fair_prob_parlay <= 1 and fair_dec_parlay >= 1, fair_prob_parlay is
\* at most the smallest fair probability multiplied in, and no step
\* increases fair_prob_parlay or decreases fair_dec_parlay
C27_AccumulatorBounds ==
    /\ []AccumulatorsInBounds
    /\ [][AccumulatorsMonotone]_vars

\* two priced legs multiplied in, the product below both of them
C27_Witness ==
    /\ AllLegsPriced
    /\ pc = "loop"
    /\ variant \in {"pinnacle_v7c", "oddsjam_v1"}
    /\ n_done = 2
    /\ Len(results) = 2
    /\ Lt(fair_prob_parlay, results[1].fair_prob)
    /\ Lt(fair_prob_parlay, results[2].fair_prob)
    /\ Gt(fair_dec_parlay, Two)

\* the entries among the first m of st.session_state.selected that have
\* exactly one side checked, in order
RECURSIVE KeptPicks(_)
KeptPicks(m) ==
    IF m = 0 THEN <<>>
    ELSE IF picks[m].side \in {"home", "away"}
    THEN Append(KeptPicks(m - 1), picks[m])
    ELSE KeptPicks(m - 1)

SameMarket(r, pick) ==
    /\ r.side = pick.side
    /\ r.price_home = pick.home
    /\ r.price_away = pick.away

\* C24: in oddsapi v2 the legs are exactly the processed events with one
\* side checked, one leg each and in order; an event with both or neither
\* side checked adds no leg and no factor to the parlay products; when no
\* event qualifies the run stops with the 'No valid legs' error
C24_OneSidePerEvent ==
    (variant = "oddsapi_v2")
        => /\ \A m \in 1..Len(results) : results[m].side \in {"home", "away"}
           /\ Len(results) <= Len(picks)
           /\ (pc # "raised")
                 => /\ Len(results) = Len(KeptPicks(n_done))
                    /\ \A m \in 1..Len(results) :
                          SameMarket(results[m], KeptPicks(n_done)[m])
           /\ (/\ pc # "raised"
               /\ IsNum(fair_prob_parlay)
               /\ AllUsable(results, Len(results)))
                 => /\ fair_prob_parlay = ProbProduct(results, Len(results))
                    /\ fair_dec_parlay = RecipProduct(results, Len(results))
           /\ EndedWithZeroLegs
                 => /\ pc = "stopped"
                    /\ "error_no_valid_legs" \in shown
                    /\ "parlay" \notin shown

\* a game with both sides checked next to a game with one side checked:
\* the parlay is the second game alone
C24_Witness ==
    /\ variant = "oddsapi_v2"
    /\ Len(picks) = 2
    /\ picks[1].side = "both"
    /\ picks[2].side = "home"
    /\ "parlay" \in shown
    /\ Len(results) = 1
    /\ fair_prob_parlay = results[1].fair_prob
    /\ Lt(fair_prob_parlay, One)

\* a period dict whose number field is 0
HasNumberZero(period_obj) ==
    period_obj.kind = "dict" /\ period_obj.number = Zero

\* C26 (as stated): is_full_game_period is True for every period object
\* whose number field is 0, whatever its id / periodId fields hold, and
\* when a matchup has a moneyline candidate with period number 0 the chosen
\* candidate is one of those
C26_FullGamePreferred ==
    (market_pc = "chosen")
        => /\ \A m \in 1..Len(candidates) :
                 HasNumberZero(candidates[m].period)
                     => IsFullGame(period_copy, candidates[m].period)
           /\ (\E m \in 1..Len(candidates) :
                   HasNumberZero(candidates[m].period))
                 => \/ HasNumberZero(chosen.period)
                    \/ IsFullGame(period_copy, chosen.period)

\* C25 (as stated): in oddsapi v2, after any sequence of reruns every leg
\* Calculate includes belongs to an event in the current matches list
\* whose side is currently checked; an entry of st.session_state.selected
\* of an event no longer listed contributes no leg
C25_LegsAreCurrent ==
    (session_pc = "calculated")
        => \A l \in legs :
              /\ l.event \in matches
              /\ checked[l.event] = l.side

BackoffSafe ==
    (returned # "off")
        => /\ Len(outcomes) <= tries
           /\ returned \in {"running", "response", "None"}
           /\ \A m \in 1..(Len(outcomes) - 1) : outcomes[m] # "ok"
           /\ (returned = "response")
                 <=> (outcomes # <<>> /\ outcomes[Len(outcomes)] = "ok")
           /\ (returned = "None")
                 => /\ Len(outcomes) = tries
                    /\ \A m \in 1..tries : outcomes[m] # "ok"
           /\ Len(slept) = Len(SelectSeq(outcomes, LAMBDA o : o # "ok"))
           /\ (slept # <<>>) => slept[1] = Rat(4, 5)
           /\ \A m \in 1..(Len(slept) - 1) :
                 slept[m + 1] = Mul(slept[m], Rat(9, 5))
           /\ IsNum(delay)
                 => delay = (IF slept = <<>> THEN Rat(4, 5)
                             ELSE Mul(slept[Len(slept)], Rat(9, 5)))

NoAttemptAfterReturn ==
    (returned \notin {"running", "off"})
        => (outcomes' = outcomes /\ returned' = returned)

\* C30: backoff_get ends after at most `tries` requests: it returns the
\* response of the first request that succeeds and makes no request after
\* it, returns None without raising when all `tries` requests fail, and the
\* sleeps after failed requests are 0.8 s, then 1.8 times the previous one
C30_BackoffTerminates ==
    /\ []BackoffSafe
    /\ [][NoAttemptAfterReturn]_vars
    /\ <>(returned \in {"response", "None"})

\* two failed requests, then a response on the third and last try
C30_Witness ==
    /\ tries = 3
    /\ outcomes = <<"Timeout", "HTTPError", "ok">>
    /\ returned = "response"
    /\ slept = <<Rat(4, 5), Rat(36, 25)>>

====
